---- MODULE Spec2Model ----
(***************************************************************************)
(* tiny_rpc: the wire codec of a small RPC framework built on net/rpc.     *)
(*                                                                         *)
(* One connection is modelled: a clientCodec and a serverCodec joined by   *)
(* two ordered byte streams, c2s (requests) and s2c (responses).  The      *)
(* dispatchers on both sides (net/rpc's Client and Server) are the         *)
(* environment: they choose the arguments of every codec call.             *)
(*                                                                         *)
(* A stream is a sequence of elements.  A header frame (uvarint length     *)
(* followed by the marshalled header) is one "frame" element; the raw body *)
(* that follows it is a run of "byte" elements, one per byte.              *)
(***************************************************************************)
EXTENDS Integers, Sequences, FiniteSets, TLC

(***************************************************************************)
(* Bounds of the model.                                                    *)
(***************************************************************************)
\* number of WriteRequest calls the client dispatcher makes
MaxRequests == 2
\* number of messages a foreign endpoint puts on the streams (SpecPeer only)
MaxPeer == 1
\* number of bytes an injector corrupts in transit
MaxCorrupt == 1
\* number of frames sent on the stream of SpecFrames
MaxFrames == 3
\* size of the buffer of the codec's bufio.Writer, in bytes
BufSize == 4

(***************************************************************************)
(* Values of the environment.                                              *)
(***************************************************************************)
\* the error values of package codec, and "nil"
Nil == "nil"
NotFoundCompressorError == "NotFoundCompressor"
UnexpectedChecksumError == "UnexpectedChecksum"
CompressorTypeMismatchError == "CompressorTypeMismatch"
InvalidSequenceError == "InvalidSequence"
\* errors that come from outside package codec
SerializerError == "SerializerError"
UnzipError == "UnzipError"
HeaderDecodeError == "HeaderDecodeError"
TransportError == "TransportError"

\* The `param any` of the codec calls: NoParam is Go's nil, <<"msg", a>> is a
\* protobuf message with one integer field of value a, <<"other">> is a value
\* that is no protobuf message.
NoParam == <<>>
Msg(a) == <<"msg", a>>
NotMsg == <<"other">>
\* the calls the client dispatcher makes: call number seq is to method
\* MethodOf(seq), a different one for every seq, with one of these arguments
MethodOf(seq) == <<"M", seq>>
Args == {Msg(1), NotMsg}
\* the answers the server dispatcher gives: error and reply
Replies == {<<"", Msg(1)>>, <<"boom", Msg(1)>>}
\* a fresh reply/argument object handed to the Read*Body calls
Target == Msg(0)

(***************************************************************************)
(* 32-bit words as the set of their one-bits (bit 0 is the least           *)
(* significant), so that CRC-32 keeps its full width.                      *)
(***************************************************************************)
RECURSIVE Pow2(_)
Pow2(n) == IF n = 0 THEN 1 ELSE 2 * Pow2(n - 1)

BitsOf(b) == {i \in 0..7 : (b \div Pow2(i)) % 2 = 1}

Xor(A, B) == (A \ B) \cup (B \ A)

Shr1(A) == {i - 1 : i \in A \ {0}}

\* 0xEDB88320, the reflected IEEE polynomial
IEEEPoly == {5, 8, 9, 15, 19, 20, 21, 23, 24, 26, 27, 29, 30, 31}

AllOnes == 0..31

RECURSIVE CrcShift(_, _)
CrcShift(crc, k) ==
    IF k = 0 THEN crc
    ELSE CrcShift(IF 0 \in crc THEN Xor(Shr1(crc), IEEEPoly) ELSE Shr1(crc), k - 1)

RECURSIVE CrcUpdate(_, _)
CrcUpdate(crc, data) ==
    IF data = <<>> THEN crc
    ELSE CrcUpdate(CrcShift(Xor(crc, BitsOf(Head(data))), 8), Tail(data))

\* hash/crc32.ChecksumIEEE: CRC-32 of data, as a 32-bit word
ChecksumIEEE(data) == Xor(CrcUpdate(AllOnes, data), AllOnes)

\* the 32-bit word 0
Zero32 == {}

(***************************************************************************)
(* Collaborating packages (compressor, serializer, header).                *)
(***************************************************************************)
\* compressor.Compressors: the registry, keyed by CompressType
\* (0 Raw, 1 Gzip, 2 Snappy, 3 Zlib)
Compressors == {0, 1, 2, 3}
Raw == 0

\* compress types a client can be configured with / a header can carry
CompressTypes == {0, 1, 999}

\* Compressors[t].Zip: Raw is the identity, the others prepend their stream
\* header (one byte here, the type's tag) even to an empty input.
Zip(t, data) ==
    [err |-> Nil, out |-> IF t = Raw THEN data ELSE <<t>> \o data]

\* Compressors[t].Unzip: the inverse; input without the stream header is an error
Unzip(t, data) ==
    IF t = Raw THEN [err |-> Nil, out |-> data]
    ELSE IF data # <<>> /\ Head(data) = t THEN [err |-> Nil, out |-> Tail(data)]
    ELSE [err |-> UnzipError, out |-> <<>>]

\* serializer.Proto.Marshal: a message whose field is 0 marshals to no bytes,
\* field value a > 0 to the tag byte 0x08 and the varint a; a value that is
\* no message is an error.
Marshal(param) ==
    IF Len(param) = 2 /\ param[1] = "msg"
    THEN [err |-> Nil, out |-> IF param[2] = 0 THEN <<>> ELSE <<8, param[2]>>]
    ELSE [err |-> SerializerError, out |-> <<>>]

\* serializer.Proto.Unmarshal into a message
Unmarshal(data) ==
    IF data = <<>> THEN [err |-> Nil, out |-> Msg(0)]
    ELSE IF Len(data) = 2 /\ data[1] = 8 /\ data[2] \in 1..127
    THEN [err |-> Nil, out |-> Msg(data[2])]
    ELSE [err |-> SerializerError, out |-> NoParam]

\* header.RequestHeader / header.ResponseHeader after ResetHeader
ZeroRequestHeader ==
    [ID |-> 0, Method |-> "", RequestLen |-> 0, CompressType |-> 0, Checksum |-> Zero32]
ZeroResponseHeader ==
    [ID |-> 0, Error |-> "", ResponseLen |-> 0, CompressType |-> 0, Checksum |-> Zero32]

\* RequestHeader.Marshal / Unmarshal: the fields in wire order
MarshalRequestHeader(h) ==
    <<h.ID, h.Method, h.RequestLen, h.CompressType, h.Checksum>>
UnmarshalRequestHeader(data) ==
    IF Len(data) = 5
    THEN [err |-> Nil,
          h |-> [ID |-> data[1], Method |-> data[2], RequestLen |-> data[3],
                 CompressType |-> data[4], Checksum |-> data[5]]]
    ELSE [err |-> HeaderDecodeError, h |-> ZeroRequestHeader]

\* ResponseHeader.Marshal / Unmarshal
MarshalResponseHeader(h) ==
    <<h.ID, h.Error, h.ResponseLen, h.CompressType, h.Checksum>>
UnmarshalResponseHeader(data) ==
    IF Len(data) = 5
    THEN [err |-> Nil,
          h |-> [ID |-> data[1], Error |-> data[2], ResponseLen |-> data[3],
                 CompressType |-> data[4], Checksum |-> data[5]]]
    ELSE [err |-> HeaderDecodeError, h |-> ZeroResponseHeader]

(***************************************************************************)
(* Go maps.                                                                *)
(***************************************************************************)
MapPut(m, k, v) == [x \in DOMAIN m \cup {k} |-> IF x = k THEN v ELSE m[x]]
MapDelete(m, k) == [x \in DOMAIN m \ {k} |-> m[x]]
EmptyMap == [x \in {} |-> 0]

(***************************************************************************)
(* Framing (codec/io.go) over a stream of elements.                        *)
(***************************************************************************)
FrameElem(data) == [k |-> "frame", data |-> data]
ByteElem(b) == [k |-> "byte", b |-> b]

Drop(s, n) == SubSeq(s, n + 1, Len(s))

\* sendFrame: the elements it puts on the stream
sendFrame(data) == <<FrameElem(data)>>

\* write: the elements it puts on the stream
write(data) == [i \in 1..Len(data) |-> ByteElem(data[i])]

\* recvFrame on a stream whose next element exists: the frame's data, or an
\* error when the bytes at the read position are not a header frame
recvFrame(r) ==
    IF Head(r).k = "frame"
    THEN [err |-> Nil, data |-> Head(r).data, rest |-> Tail(r)]
    ELSE [err |-> HeaderDecodeError, data |-> <<>>, rest |-> Tail(r)]

\* read of n bytes from a stream that holds at least n elements
read(r, n) ==
    [err |-> Nil,
     data |-> [i \in 1..n |-> IF r[i].k = "byte" THEN r[i].b ELSE 255],
     rest |-> Drop(r, n)]

(***************************************************************************)
(* Framing (codec/io.go) over a stream of bytes: what a "frame" element    *)
(* above stands for on the wire.                                           *)
(***************************************************************************)
\* binary.MaxVarintLen64
MaxVarintLen64 == 10

\* errors of io and encoding/binary
ErrEOF == "EOF"
ErrUnexpectedEOF == "unexpected EOF"
ErrOverflow == "binary: varint overflows a 64-bit integer"

\* binary.PutUvarint: seven bits per byte, least significant group first,
\* the high bit set on every byte but the last
RECURSIVE PutUvarint(_)
PutUvarint(x) ==
    IF x < 128 THEN <<x>> ELSE <<128 + (x % 128)>> \o PutUvarint(x \div 128)

\* binary.ReadUvarint from byte i on, x and s being the value and the shift
\* accumulated so far
RECURSIVE ReadUvarintFrom(_, _, _, _)
ReadUvarintFrom(r, i, x, s) ==
    IF i = MaxVarintLen64 THEN [err |-> ErrOverflow, x |-> x, rest |-> r]
    ELSE IF r = <<>>
    THEN [err |-> IF i > 0 THEN ErrUnexpectedEOF ELSE ErrEOF, x |-> x, rest |-> r]
    ELSE IF Head(r) < 128
    THEN IF i = MaxVarintLen64 - 1 /\ Head(r) > 1
         THEN [err |-> ErrOverflow, x |-> x, rest |-> Tail(r)]
         ELSE [err |-> Nil, x |-> x + Head(r) * Pow2(s), rest |-> Tail(r)]
    ELSE ReadUvarintFrom(Tail(r), i + 1, x + (Head(r) % 128) * Pow2(s), s + 7)

ReadUvarint(r) == ReadUvarintFrom(r, 0, 0, 0)

\* a sendFrame that writes nothing at all for an empty buffer
SendFrameBytesSkipEmpty(data) ==
    IF Len(data) = 0 THEN <<>> ELSE PutUvarint(Len(data)) \o data

\* sendFrame: the bytes it hands to a writer that accepts them all
SendFrameBytes(data) ==
    IF Len(data) = 0 THEN PutUvarint(0) ELSE PutUvarint(Len(data)) \o data

\* recvFrame on the bytes r of a stream that ends after them
RecvFrameBytes(r) ==
    LET u == ReadUvarint(r) IN
    IF u.err # Nil THEN [err |-> u.err, data |-> <<>>, rest |-> u.rest]
    ELSE IF u.x # 0
    THEN IF Len(u.rest) < u.x
         THEN [err |-> ErrEOF, data |-> <<>>, rest |-> <<>>]
         ELSE [err |-> Nil, data |-> SubSeq(u.rest, 1, u.x), rest |-> Drop(u.rest, u.x)]
    ELSE [err |-> Nil, data |-> <<>>, rest |-> u.rest]

\* the bytes of frames sent back to back
RECURSIVE FramesBytes(_)
FramesBytes(bufs) ==
    IF bufs = <<>> THEN <<>> ELSE SendFrameBytes(Head(bufs)) \o FramesBytes(Tail(bufs))

(***************************************************************************)
(* The codec's writer: bufio.NewWriter(conn).  A writer is the record of   *)
(* its buffer, its sticky error and the bytes it has handed to conn.       *)
(***************************************************************************)
\* errors of conn.Write: a *net.OpError (connection reset by peer), which is
\* a net.Error though no transient one, and io.ErrClosedPipe, which is none
ErrReset == "connection reset by peer"
ErrClosedPipe == "io: read/write on closed pipe"

\* err.(net.Error) succeeds
IsNetError(err) == err = ErrReset

\* conn.Write(p): a healthy connection takes every byte, a failed one takes
\* none and returns its error
ConnWrite(conn, p) ==
    IF conn = Nil THEN [n |-> Len(p), err |-> Nil] ELSE [n |-> 0, err |-> conn]

\* a Flush that empties the buffer without writing it
BufFlushDiscard(w, conn) ==
    IF w.err # Nil THEN [w |-> w, err |-> w.err]
    ELSE [w |-> [w EXCEPT !.buf = <<>>], err |-> Nil]

\* bufio.Writer.Flush
BufFlush(w, conn) ==
    IF w.err # Nil THEN [w |-> w, err |-> w.err]
    ELSE IF w.buf = <<>> THEN [w |-> w, err |-> Nil]
    ELSE LET r == ConnWrite(conn, w.buf) IN
         IF r.err # Nil
         THEN [w |-> [buf |-> Drop(w.buf, r.n), err |-> r.err,
                      wire |-> w.wire \o SubSeq(w.buf, 1, r.n)],
               err |-> r.err]
         ELSE [w |-> [buf |-> <<>>, err |-> Nil, wire |-> w.wire \o w.buf],
               err |-> Nil]

\* bufio.Writer.Write(p), nn bytes of the call's argument taken so far
RECURSIVE BufWriteFrom(_, _, _, _)
BufWriteFrom(w, conn, p, nn) ==
    IF Len(p) > BufSize - Len(w.buf) /\ w.err = Nil
    THEN IF w.buf = <<>>
         THEN \* large write, empty buffer: straight to conn
              LET r == ConnWrite(conn, p) IN
              BufWriteFrom([w EXCEPT !.err = r.err,
                                     !.wire = w.wire \o SubSeq(p, 1, r.n)],
                           conn, Drop(p, r.n), nn + r.n)
         ELSE LET n == BufSize - Len(w.buf)
                  f == BufFlush([w EXCEPT !.buf = w.buf \o SubSeq(p, 1, n)], conn)
              IN  BufWriteFrom(f.w, conn, Drop(p, n), nn + n)
    ELSE IF w.err # Nil THEN [w |-> w, n |-> nn, err |-> w.err]
    ELSE [w |-> [w EXCEPT !.buf = w.buf \o p], n |-> nn + Len(p), err |-> Nil]

BufWrite(w, conn, p) == BufWriteFrom(w, conn, p, 0)

(***************************************************************************)
(* Lengths. A Go int is 64 bits wide here, a header's length field 32: a   *)
(* length is the set of its one-bits, as the checksums are.                *)
(***************************************************************************)
\* uint32(x) of an int x >= 0
Uint32(x) == x \cap (0..31)

\* the RequestLen or ResponseLen field of the header written for a compressed
\* body of n bytes
HeaderLenField(n) == Uint32(n)

(***************************************************************************)
(* State.                                                                  *)
(***************************************************************************)
VARIABLES
    c_compressor,   \* clientCodec.compressor
    c_pending,      \* clientCodec.pending: seq -> method
    c_response,     \* clientCodec.response, the response header last decoded
    c_rd,           \* what the client's reader does next: "header", "body", "failed"
    c_seq,          \* net/rpc Client.seq, the seq of the next call
    s_seq,          \* serverCodec.seq
    s_pending,      \* serverCodec.pending: seq -> reqCtx
    s_request,      \* serverCodec.request, the request header last decoded
    s_rd,           \* what the server's reader does next
    c2s,            \* the stream from the client's writer to the server's reader
    s2c,            \* the stream from the server's writer to the client's reader
    ret,            \* the codec call made last: its arguments, outputs and error
    c_log,          \* history: the (seq, method) of every WriteRequest call
    c_delivered,    \* history: the seqs ReadResponseHeader delivered
    s_log,          \* history: per request header read, the seq assigned, the
                    \* id and compress type it carried, the responses written
    peer,           \* which end of the connection is a foreign implementation
    n_peer,         \* messages a foreign endpoint has sent
    n_corrupt       \* bytes corrupted in transit

vars == <<c_compressor, c_pending, c_response, c_rd, c_seq, s_seq, s_pending,
          s_request, s_rd, c2s, s2c, ret, c_log, c_delivered, s_log, peer,
          n_peer, n_corrupt>>

client_vars == <<c_compressor, c_pending, c_response, c_rd, c_seq, c_log, c_delivered>>
server_vars == <<s_seq, s_pending, s_request, s_rd, s_log>>
env_vars == <<peer, n_peer, n_corrupt>>

\* The framing functions of codec/io.go on their own, over a stream that
\* carries every byte.
VARIABLES
    f_stream,       \* the bytes written to the stream and not yet read
    f_sent,         \* history: the buffers sendFrame was called with
    f_got,          \* history: what each recvFrame returned
    f_msg           \* the compressed body length the last header was built
                    \* for, and the length field of that header

frame_vars == <<f_stream, f_sent, f_got, f_msg>>

InitFrames ==
    /\ f_stream = <<>>
    /\ f_sent = <<>>
    /\ f_got = <<>>
    /\ f_msg = [len |-> {}, field |-> {}]

\* The write path of one codec (WriteRequest from sendFrame on, WriteResponse
\* likewise), call by call on the writer, with callers on several goroutines.
VARIABLES
    w_th,           \* per caller: where its call is, and what it returned
    w_buf,          \* the bufio.Writer: its buffer and its sticky error
    w_wire,         \* the bytes handed to conn, each with the call it is of
    w_conn,         \* Nil, or the error every conn.Write now returns
    w_order,        \* history: the callers in the order their calls began
    w_overlap       \* history: a call began while another was in progress

writer_vars == <<w_th, w_buf, w_wire, w_conn, w_order, w_overlap>>

\* the goroutines that call the codec's write operation
Threads == {1, 2}

InitWriter ==
    /\ w_th = [t \in Threads |->
                [pc |-> "idle", body |-> <<>>, index |-> 0, iters |-> 0,
                 last |-> Nil, ret |-> Nil]]
    /\ w_buf = [buf |-> <<>>, err |-> Nil]
    /\ w_wire = <<>>
    /\ w_conn = Nil
    /\ w_order = <<>>
    /\ w_overlap = FALSE

\* The read path of one codec: recvFrame, one Read call at a time.
VARIABLES
    r_th,           \* where the recvFrame call is, and what it returned
    r_in,           \* the bytes that have arrived and are not yet read
    r_conn          \* Nil, or the error every Read returns once r_in is empty

reader_vars == <<r_th, r_in, r_conn>>

InitReader ==
    /\ r_th = [pc |-> "idle", want |-> 0, index |-> 0, iters |-> 0,
               last |-> Nil, ret |-> Nil]
    /\ r_in = <<>>
    /\ r_conn = Nil

aux_vars == <<frame_vars, writer_vars, reader_vars>>

\* NewClientCodec and NewServerCodec on the ends of a fresh connection
InitCodecs ==
    /\ c_pending = EmptyMap
    /\ c_response = ZeroResponseHeader
    /\ c_rd = "header"
    /\ c_seq = 0
    /\ s_seq = 0
    /\ s_pending = EmptyMap
    /\ s_request = ZeroRequestHeader
    /\ s_rd = "header"
    /\ c2s = <<>>
    /\ s2c = <<>>
    /\ ret = [op |-> "none", err |-> Nil]
    /\ c_log = <<>>
    /\ c_delivered = {}
    /\ s_log = <<>>
    /\ n_peer = 0
    /\ n_corrupt = 0

\* both ends of the connection are codecs of this repository
Init ==
    /\ InitCodecs
    /\ InitFrames
    /\ InitWriter
    /\ InitReader
    /\ peer = "none"
    /\ c_compressor \in CompressTypes

\* ... or one end is a foreign implementation of the wire protocol, which
\* stands in for the client ("client") or for the server ("server")
InitPeer ==
    /\ InitCodecs
    /\ InitFrames
    /\ InitWriter
    /\ InitReader
    /\ peer \in {"client", "server"}
    /\ c_compressor \in IF peer = "client" THEN {Raw} ELSE CompressTypes

\* the codec of this repository is in use on that end
ClientUp == peer # "client"
ServerUp == peer # "server"

\* Both dispatchers give a connection up once a read on it has failed
\* (net/rpc's Client shuts down, its Server closes the codec).
Open == c_rd # "failed" /\ s_rd # "failed"

(***************************************************************************)
(* clientCodec.                                                            *)
(***************************************************************************)
\* a WriteRequest that lacks the compressor check
ClientCompressorKnownAlways(t) == TRUE

\* WriteRequest, the compressor check
ClientCompressorKnown(t) == t \in Compressors

\* WriteRequest, the request header it fills in for compressed body cbody
RequestHeaderFor(seq, method, t, cbody) ==
    [ID |-> seq, Method |-> method, RequestLen |-> Len(cbody),
     CompressType |-> t, Checksum |-> ChecksumIEEE(cbody)]

\* WriteRequest after the pending entry is recorded: the error it returns and
\* the elements it puts on the stream
WriteRequestSend(seq, method, param, t) ==
    IF ~ClientCompressorKnown(t) THEN [err |-> NotFoundCompressorError, wrote |-> <<>>]
    ELSE LET m == Marshal(param) IN
         IF m.err # Nil THEN [err |-> m.err, wrote |-> <<>>]
         ELSE LET z == Zip(t, m.out) IN
              IF z.err # Nil THEN [err |-> z.err, wrote |-> <<>>]
              ELSE [err |-> Nil,
                    wrote |-> sendFrame(MarshalRequestHeader(
                                  RequestHeaderFor(seq, method, t, z.out)))
                              \o write(z.out)]

\* a WriteRequest that records the call only once the message is sent
RecordPendingOnSuccess(pending, seq, method, err) ==
    IF err = Nil THEN MapPut(pending, seq, method) ELSE pending

\* the pending map after WriteRequest, which records the call as its first
\* step, has returned err
RecordPending(pending, seq, method, err) == MapPut(pending, seq, method)

\* What becomes of the elements a call hands to its writer: "ok", they reach
\* the stream; "error", conn fails while sendFrame or write is at work and
\* the call returns the writer's error; "lost", conn fails before the Flush,
\* whose error is dropped.  (A call that never returns, see SpecIO, is no
\* step here.)
WriterOutcomes == {"ok", "error", "lost"}

\* out, the result of a call over a healthy writer, over a writer with fate w
Transmit(out, w) ==
    IF out.err # Nil \/ w = "ok" THEN out
    ELSE [err |-> IF w = "error" THEN TransportError ELSE Nil, wrote |-> <<>>]

\* the connection failed under the call
WriterFailed(out, w) == out.err = Nil /\ w # "ok"

\* a stream that hands over the elements written last first
SentFirst(stream, elems) == elems \o stream

\* the stream after the elements were written and flushed to it
Sent(stream, elems) == stream \o elems

WriteRequest(method, param, w) ==
    /\ Open /\ ClientUp
    /\ c_seq < MaxRequests
    /\ LET seq == c_seq
           sent == WriteRequestSend(seq, method, param, c_compressor)
           out == Transmit(sent, w)
       IN /\ c_pending' = RecordPending(c_pending, seq, method, out.err)
          /\ c2s' = Sent(c2s, out.wrote)
          /\ ret' = [op |-> "WriteRequest", err |-> out.err, seq |-> seq,
                     method |-> method, wrote |-> out.wrote, w |-> w]
          /\ c_seq' = c_seq + 1
          /\ c_log' = Append(c_log, [seq |-> seq, method |-> method])
          /\ c_rd' = IF WriterFailed(sent, w) THEN "failed" ELSE c_rd
    /\ UNCHANGED <<c_compressor, c_response, c_delivered, s2c>>
    /\ UNCHANGED <<server_vars, env_vars>>

\* a ReadResponseHeader that deletes the entry before it looks the method up
PendingMethodDeletedFirst(pending, seq) == ""

\* ReadResponseHeader, the method it reports for seq: the map's value, or the
\* zero value "" of a key that is absent
PendingMethod(pending, seq) == IF seq \in DOMAIN pending THEN pending[seq] ELSE ""

\* a ReadResponseHeader that lacks the delete
ForgetPendingNever(pending, seq) == pending

\* the pending map after ReadResponseHeader has deleted seq from it
ForgetPending(pending, seq) == MapDelete(pending, seq)

ReadResponseHeader(fail) ==
    /\ Open /\ ClientUp
    /\ c_rd = "header"
    /\ s2c # <<>>
    /\ IF fail
       THEN /\ c_response' = ZeroResponseHeader
            /\ c_rd' = "failed"
            /\ ret' = [op |-> "ReadResponseHeader", err |-> TransportError]
            /\ UNCHANGED <<c_pending, c_delivered, s2c>>
       ELSE LET f == recvFrame(s2c)
                u == UnmarshalResponseHeader(f.data)
            IN IF f.err # Nil \/ u.err # Nil
               THEN /\ c_response' = ZeroResponseHeader
                    /\ c_rd' = "failed"
                    /\ s2c' = f.rest
                    /\ ret' = [op |-> "ReadResponseHeader",
                               err |-> IF f.err # Nil THEN f.err ELSE u.err]
                    /\ UNCHANGED <<c_pending, c_delivered>>
               ELSE /\ c_response' = u.h
                    /\ c_rd' = "body"
                    /\ s2c' = f.rest
                    /\ ret' = [op |-> "ReadResponseHeader", err |-> Nil,
                               seq |-> u.h.ID, error |-> u.h.Error,
                               method |-> PendingMethod(c_pending, u.h.ID),
                               known |-> u.h.ID \in DOMAIN c_pending]
                    /\ c_pending' = ForgetPending(c_pending, u.h.ID)
                    /\ c_delivered' = c_delivered \cup {u.h.ID}
    /\ UNCHANGED <<c_compressor, c_seq, c_log, c2s>>
    /\ UNCHANGED <<server_vars, env_vars>>

\* a ReadResponseBody that verifies a header checksum of 0 as any other
ClientChecksumZeroVerified(sum, body) == ChecksumIEEE(body) = sum

\* ReadResponseBody, the checksum check: a header checksum of 0 is not verified
ClientChecksumOK(sum, body) == sum = Zero32 \/ ChecksumIEEE(body) = sum

\* ReadResponseBody with a target, once the body is read: the error it
\* returns, whether it got as far as Unzip, and what it unmarshalled
ReadResponseBodyDecode(h, body, t) ==
    IF ~ClientChecksumOK(h.Checksum, body)
    THEN [err |-> UnexpectedChecksumError, unzipped |-> FALSE, target |-> NoParam]
    ELSE IF h.CompressType # t
    THEN [err |-> CompressorTypeMismatchError, unzipped |-> FALSE, target |-> NoParam]
    ELSE IF h.CompressType \notin Compressors
    THEN [err |-> "panic", unzipped |-> FALSE, target |-> NoParam]
    ELSE LET z == Unzip(h.CompressType, body) IN
         IF z.err # Nil THEN [err |-> z.err, unzipped |-> TRUE, target |-> NoParam]
         ELSE LET m == Unmarshal(z.out) IN
              [err |-> m.err, unzipped |-> TRUE, target |-> m.out]

\* a ReadResponseBody that returns at once when the target is absent
ClientBodyBytesNoDrain(h, param) == IF param = NoParam THEN 0 ELSE h.ResponseLen

\* the number of bytes ReadResponseBody reads from the stream
ClientBodyBytes(h, param) == h.ResponseLen

ReadResponseBody(param, fail) ==
    /\ Open /\ ClientUp
    /\ c_rd = "body"
    /\ LET n == ClientBodyBytes(c_response, param) IN
       /\ Len(s2c) >= n
       /\ IF fail
          THEN /\ n # 0 \/ param # NoParam
               /\ c_rd' = "failed"
               /\ ret' = [op |-> "ReadResponseBody", err |-> TransportError,
                          consumed |-> 0, param |-> param]
               /\ UNCHANGED s2c
          ELSE LET r == read(s2c, n)
                   d == IF param = NoParam
                        THEN [err |-> Nil, unzipped |-> FALSE, target |-> NoParam]
                        ELSE ReadResponseBodyDecode(c_response, r.data, c_compressor)
               IN /\ c_rd' = IF d.err = "panic" THEN "failed" ELSE "header"
                  /\ s2c' = r.rest
                  /\ ret' = [op |-> "ReadResponseBody", err |-> d.err,
                             consumed |-> Len(s2c) - Len(r.rest), param |-> param,
                             body |-> r.data, unzipped |-> d.unzipped,
                             target |-> d.target]
    /\ UNCHANGED <<c_compressor, c_pending, c_response, c_seq, c_log, c_delivered, c2s>>
    /\ UNCHANGED <<server_vars, env_vars>>

(***************************************************************************)
(* serverCodec.                                                            *)
(***************************************************************************)
\* a ReadRequestHeader that lacks the increment
NextSeqNoIncrement(seq) == seq

\* ReadRequestHeader, s.seq++
NextSeq(seq) == seq + 1

\* ReadRequestHeader, the reqCtx it binds to the new seq
NewReqCtx(h) == [requestId |-> h.ID, compressType |-> h.CompressType]

ReadRequestHeader(fail) ==
    /\ Open /\ ServerUp
    /\ s_rd = "header"
    /\ c2s # <<>>
    /\ IF fail
       THEN /\ s_request' = ZeroRequestHeader
            /\ s_rd' = "failed"
            /\ ret' = [op |-> "ReadRequestHeader", err |-> TransportError]
            /\ UNCHANGED <<s_seq, s_pending, s_log, c2s>>
       ELSE LET f == recvFrame(c2s)
                u == UnmarshalRequestHeader(f.data)
            IN IF f.err # Nil \/ u.err # Nil
               THEN /\ s_request' = ZeroRequestHeader
                    /\ s_rd' = "failed"
                    /\ c2s' = f.rest
                    /\ ret' = [op |-> "ReadRequestHeader",
                               err |-> IF f.err # Nil THEN f.err ELSE u.err]
                    /\ UNCHANGED <<s_seq, s_pending, s_log>>
               ELSE /\ s_request' = u.h
                    /\ s_rd' = "body"
                    /\ c2s' = f.rest
                    /\ s_seq' = NextSeq(s_seq)
                    /\ s_pending' = MapPut(s_pending, s_seq', NewReqCtx(u.h))
                    /\ ret' = [op |-> "ReadRequestHeader", err |-> Nil,
                               seq |-> s_seq', method |-> u.h.Method]
                    /\ s_log' = Append(s_log, [seq |-> s_seq', id |-> u.h.ID,
                                               ct |-> u.h.CompressType, nresp |-> 0, ord |-> 0])
    /\ UNCHANGED s2c
    /\ UNCHANGED <<client_vars, env_vars>>

\* a ReadRequestBody that lacks the checksum check
ServerChecksumSkipped(sum, body) == TRUE

\* ReadRequestBody, the checksum check: a header checksum of 0 is not verified
ServerChecksumOK(sum, body) == sum = Zero32 \/ ChecksumIEEE(body) = sum

\* a ReadRequestBody that lacks the compressor check
ServerCompressorKnownAlways(t) == TRUE

\* ReadRequestBody, the check that the request's compressor is implemented
ServerCompressorKnown(t) == t \in Compressors

\* ReadRequestBody with a target, once the body is read: the error it
\* returns, whether it got as far as Unzip, and what it unmarshalled
ReadRequestBodyDecode(h, body) ==
    IF ~ServerChecksumOK(h.Checksum, body)
    THEN [err |-> UnexpectedChecksumError, unzipped |-> FALSE, target |-> NoParam]
    ELSE IF ~ServerCompressorKnown(h.CompressType)
    THEN [err |-> NotFoundCompressorError, unzipped |-> FALSE, target |-> NoParam]
    ELSE LET z == Unzip(h.CompressType, body) IN
         IF z.err # Nil THEN [err |-> z.err, unzipped |-> TRUE, target |-> NoParam]
         ELSE LET m == Unmarshal(z.out) IN
              [err |-> m.err, unzipped |-> TRUE, target |-> m.out]

\* the number of bytes ReadRequestBody reads from the stream
ServerBodyBytes(h, param) == h.RequestLen

ReadRequestBody(param, fail) ==
    /\ Open /\ ServerUp
    /\ s_rd = "body"
    /\ LET n == ServerBodyBytes(s_request, param) IN
       /\ Len(c2s) >= n
       /\ IF fail
          THEN /\ n # 0 \/ param # NoParam
               /\ s_rd' = "failed"
               /\ ret' = [op |-> "ReadRequestBody", err |-> TransportError,
                          consumed |-> 0, param |-> param]
               /\ UNCHANGED c2s
          ELSE LET r == read(c2s, n)
                   d == IF param = NoParam
                        THEN [err |-> Nil, unzipped |-> FALSE, target |-> NoParam]
                        ELSE ReadRequestBodyDecode(s_request, r.data)
               IN /\ s_rd' = "header"
                  /\ c2s' = r.rest
                  /\ ret' = [op |-> "ReadRequestBody", err |-> d.err,
                             consumed |-> Len(c2s) - Len(r.rest), param |-> param,
                             body |-> r.data, unzipped |-> d.unzipped,
                             target |-> d.target]
    /\ UNCHANGED <<s_seq, s_pending, s_request, s_log, s2c>>
    /\ UNCHANGED <<client_vars, env_vars>>

\* a WriteResponse that answers with its own seq in place of the request's id
ResponseHeaderForOwnSeq(seq, ctx, error, cbody) ==
    [ID |-> seq, Error |-> error, ResponseLen |-> Len(cbody),
     CompressType |-> ctx.compressType, Checksum |-> ChecksumIEEE(cbody)]

\* WriteResponse, the response header it fills in for compressed body cbody
ResponseHeaderFor(seq, ctx, error, cbody) ==
    [ID |-> ctx.requestId, Error |-> error, ResponseLen |-> Len(cbody),
     CompressType |-> ctx.compressType, Checksum |-> ChecksumIEEE(cbody)]

\* WriteResponse once the pending entry ctx is taken: the error it returns
\* and the elements it puts on the stream
WriteResponseSend(seq, ctx, error, param) ==
    LET p == IF error # "" THEN NoParam ELSE param IN
    IF ctx.compressType \notin Compressors
    THEN [err |-> NotFoundCompressorError, wrote |-> <<>>]
    ELSE LET m == IF p # NoParam THEN Marshal(p) ELSE [err |-> Nil, out |-> <<>>] IN
         IF m.err # Nil THEN [err |-> m.err, wrote |-> <<>>]
         ELSE LET z == Zip(ctx.compressType, m.out) IN
              IF z.err # Nil THEN [err |-> z.err, wrote |-> <<>>]
              ELSE [err |-> Nil,
                    wrote |-> sendFrame(MarshalResponseHeader(
                                  ResponseHeaderFor(seq, ctx, error, z.out)))
                              \o write(z.out)]

\* WriteResponse, the lookup `reqCtx, ok := s.pending[response.Seq]`
PendingHas(pending, seq) == seq \in DOMAIN pending

\* a WriteResponse that lacks the delete
TakePendingKeep(pending, seq, err) == pending

\* a WriteResponse that deletes the entry only once the response is written
TakePendingOnSuccess(pending, seq, err) ==
    IF err = Nil THEN MapDelete(pending, seq) ELSE pending

\* the pending map after WriteResponse, which takes the entry of seq out as
\* soon as it has looked it up, has returned err
TakePending(pending, seq, err) == MapDelete(pending, seq)

\* the number of responses written so far
Responses(log) == Cardinality({i \in DOMAIN log : log[i].nresp > 0})

WriteResponse(seq, error, param, w) ==
    /\ Open /\ ServerUp
    /\ IF ~PendingHas(s_pending, seq)
       THEN /\ ret' = [op |-> "WriteResponse", err |-> InvalidSequenceError,
                       seq |-> seq, wrote |-> <<>>, w |-> w]
            /\ UNCHANGED <<s_pending, s2c, s_log, s_rd>>
       ELSE LET sent == WriteResponseSend(seq, s_pending[seq], error, param)
                out == Transmit(sent, w)
            IN
            /\ s_pending' = TakePending(s_pending, seq, out.err)
            /\ s2c' = Sent(s2c, out.wrote)
            /\ ret' = [op |-> "WriteResponse", err |-> out.err, seq |-> seq,
                       wrote |-> out.wrote, w |-> w]
            /\ s_log' = [i \in DOMAIN s_log |->
                           IF s_log[i].seq = seq /\ out.wrote # <<>>
                           THEN [s_log[i] EXCEPT !.nresp = @ + 1,
                                                 !.ord = Responses(s_log) + 1]
                           ELSE s_log[i]]
            /\ s_rd' = IF WriterFailed(sent, w) THEN "failed" ELSE s_rd
    /\ UNCHANGED <<s_seq, s_request, c2s>>
    /\ UNCHANGED <<client_vars, env_vars>>

(***************************************************************************)
(* The network between the two codecs.                                     *)
(***************************************************************************)
\* the byte with its lowest bit flipped
FlipBit(b) == IF b % 2 = 0 THEN b + 1 ELSE b - 1

\* the stream holds a body that its reader is about to read
BodyNext(w, rd) == rd = "body" /\ w # <<>> /\ Head(w).k = "byte"

\* An injector flips a bit of byte 0 of a body in transit.  When it does so is
\* seen by nobody but the reader, so it acts just before the body is read.
Corrupt ==
    /\ Open
    /\ n_corrupt < MaxCorrupt
    /\ n_corrupt' = n_corrupt + 1
    /\ \/ /\ BodyNext(c2s, s_rd)
          /\ c2s' = [c2s EXCEPT ![1] = ByteElem(FlipBit(c2s[1].b))]
          /\ UNCHANGED s2c
       \/ /\ BodyNext(s2c, c_rd)
          /\ s2c' = [s2c EXCEPT ![1] = ByteElem(FlipBit(s2c[1].b))]
          /\ UNCHANGED c2s
    /\ UNCHANGED <<client_vars, server_vars, ret, peer, n_peer>>

\* what a foreign endpoint may send
PeerIDs == {0, 7}
\* compress type, body and checksum of its messages: a type this registry lacks
\* with a right and with a wrong checksum, a known type with a wrong checksum,
\* an unverified body that is no output of the type's Zip, and a body and an
\* empty body sent with checksum 0
PeerPayloads ==
    {[t |-> 999, body |-> <<8, 1>>, sum |-> ChecksumIEEE(<<8, 1>>)],
     [t |-> 999, body |-> <<8, 1>>, sum |-> ChecksumIEEE(<<8, 0>>)],
     [t |-> 0, body |-> <<8, 1>>, sum |-> ChecksumIEEE(<<8, 0>>)],
     [t |-> 1, body |-> <<>>, sum |-> Zero32],
     [t |-> 0, body |-> <<8, 1>>, sum |-> Zero32],
     [t |-> 0, body |-> <<>>, sum |-> Zero32]}

\* the remote end of the server's connection is another implementation of the
\* protocol: it sends a well-formed request message of its own choice
PeerRequest ==
    /\ Open /\ ~ClientUp
    /\ n_peer < MaxPeer
    /\ n_peer' = n_peer + 1
    /\ \E id \in PeerIDs, p \in PeerPayloads :
           c2s' = c2s \o sendFrame(MarshalRequestHeader(
                            [ID |-> id, Method |-> "Arith.Add", RequestLen |-> Len(p.body),
                             CompressType |-> p.t, Checksum |-> p.sum]))
                      \o write(p.body)
    /\ UNCHANGED <<client_vars, server_vars, ret, s2c, peer, n_corrupt>>

\* the remote end of the client's connection is another implementation of the
\* protocol: it sends a well-formed response message of its own choice
PeerResponse ==
    /\ Open /\ ~ServerUp
    /\ n_peer < MaxPeer
    /\ n_peer' = n_peer + 1
    /\ \E id \in PeerIDs, p \in PeerPayloads :
           s2c' = s2c \o sendFrame(MarshalResponseHeader(
                            [ID |-> id, Error |-> "", ResponseLen |-> Len(p.body),
                             CompressType |-> p.t, Checksum |-> p.sum]))
                      \o write(p.body)
    /\ UNCHANGED <<client_vars, server_vars, ret, c2s, peer, n_corrupt>>

(***************************************************************************)
(* Specifications.                                                         *)
(***************************************************************************)
\* the seqs a server dispatcher may answer: those assigned so far (pending or
\* answered already), and 0, which is never assigned
ResponseSeqs == 0..s_seq

\* the calls of the client dispatcher, over a writer whose fates are W
ClientCalls(W) ==
    \/ \E param \in Args, w \in W : WriteRequest(MethodOf(c_seq), param, w)
    \/ \E fail \in BOOLEAN : ReadResponseHeader(fail)
    \/ \E param \in {NoParam, Target}, fail \in BOOLEAN : ReadResponseBody(param, fail)

\* the calls of the server dispatcher, which answers with one of R, over a
\* writer whose fates are W
ServerCalls(W, R) ==
    \/ \E fail \in BOOLEAN : ReadRequestHeader(fail)
    \/ \E param \in {NoParam, Target}, fail \in BOOLEAN : ReadRequestBody(param, fail)
    \/ \E seq \in ResponseSeqs, reply \in R, w \in W :
         WriteResponse(seq, reply[1], reply[2], w)

\* both dispatchers on a connection whose writers take every byte
ClientNext == ClientCalls({"ok"})
ServerNext == ServerCalls({"ok"}, Replies)

\* the two codecs of this repository on the two ends of one connection
Next == (ClientNext \/ ServerNext \/ Corrupt) /\ UNCHANGED aux_vars

Spec == Init /\ [][Next]_vars

\* one end may be a foreign implementation of the protocol
NextPeer == Next \/ ((PeerRequest \/ PeerResponse) /\ UNCHANGED aux_vars)

SpecPeer == InitPeer /\ [][NextPeer]_vars

\* The calls that fail: the connection can fail under a write, the server
\* dispatcher may answer with a value that is no message, and the requests may
\* come from a foreign client.
FailReplies == {<<"", Msg(1)>>, <<"", NotMsg>>}

InitFail ==
    /\ InitCodecs
    /\ InitFrames
    /\ InitWriter
    /\ InitReader
    /\ peer \in {"none", "client"}
    /\ c_compressor \in IF peer = "client" THEN {Raw} ELSE CompressTypes

NextFail ==
    /\ \/ ClientCalls(WriterOutcomes)
       \/ ServerCalls(WriterOutcomes, FailReplies)
       \/ PeerRequest
    /\ UNCHANGED aux_vars

SpecFail == InitFail /\ [][NextFail]_vars

(***************************************************************************)
(* The framing functions on their own.                                     *)
(***************************************************************************)
\* a buffer of 130 bytes, whose length takes two varint bytes
LongBuffer == [i \in 1..130 |-> i]

\* the buffers sendFrame is called with
Buffers == {<<>>, <<7>>, <<200, 1>>, LongBuffer}

\* the lengths of compressed bodies: 0, 1, 2^31, 2^32 bytes and their sums
BodyLens == SUBSET {0, 31, 32}

\* sendFrame(w, b) on a writer that accepts every byte
FrameSend(b) ==
    /\ Len(f_sent) < MaxFrames
    /\ f_stream' = f_stream \o SendFrameBytes(b)
    /\ f_sent' = Append(f_sent, b)
    /\ UNCHANGED <<f_got, f_msg>>

\* recvFrame(r) on the reader of that stream
FrameRecv ==
    /\ f_stream # <<>>
    /\ LET got == RecvFrameBytes(f_stream) IN
         /\ f_got' = Append(f_got, [err |-> got.err, data |-> got.data])
         /\ f_stream' = got.rest
    /\ UNCHANGED <<f_sent, f_msg>>

\* WriteRequest / WriteResponse from the header's length field to the write
\* of the body, for a compressed body of n bytes
BuildHeader(n) ==
    /\ f_msg' = [len |-> n, field |-> HeaderLenField(n)]
    /\ UNCHANGED <<f_stream, f_sent, f_got>>

InitFraming ==
    /\ InitCodecs
    /\ InitFrames
    /\ InitWriter
    /\ InitReader
    /\ peer = "none"
    /\ c_compressor = Raw

NextFrames ==
    /\ \/ \E b \in Buffers : FrameSend(b)
       \/ FrameRecv
       \/ \E n \in BodyLens : BuildHeader(n)
    /\ UNCHANGED <<vars, writer_vars, reader_vars>>

SpecFrames == InitFraming /\ [][NextFrames]_<<vars, aux_vars>>

(***************************************************************************)
(* The write path, one Write call at a time.                               *)
(***************************************************************************)
\* the marshalled header of caller t's message
HeaderBytes(t) == <<t, t, t>>

\* the compressed bodies of the messages
Bodies == {<<>>, <<1, 2>>, <<1, 2, 3, 4, 5>>}

\* bytes on their way to the wire carry the call they are of
Tag(t, bytes) == [i \in 1..Len(bytes) |-> [b |-> bytes[i], call |-> t]]

\* the pc values of a call that has begun and not returned
Running == {"size", "data", "body", "flush"}

\* the buffer the write loop of a call at pc is working on
PhaseData(t, pc, body) ==
    IF pc = "size" THEN PutUvarint(Len(HeaderBytes(t)))
    ELSE IF pc = "data" THEN HeaderBytes(t)
    ELSE body

\* where a call goes on once the write loop at pc has returned nil: sendFrame
\* writes the size and, unless the data is empty, the data; the body's write
\* follows, whose loop does nothing for an empty body; then Flush
AfterWrite(t, pc, body) ==
    IF pc = "size" /\ Len(HeaderBytes(t)) # 0 THEN "data"
    ELSE IF pc \in {"size", "data"} /\ Len(body) # 0 THEN "body"
    ELSE "flush"

\* the write operation begins on goroutine t: its first Write is that of the
\* header frame's size
Start(t, body) ==
    /\ w_th[t].pc = "idle"
    /\ w_th' = [w_th EXCEPT ![t] = [@ EXCEPT !.pc = "size", !.body = body]]
    /\ w_order' = Append(w_order, t)
    /\ w_overlap' = (w_overlap \/ \E u \in Threads \ {t} : w_th[u].pc \in Running)
    /\ UNCHANGED <<w_buf, w_wire, w_conn>>

\* one iteration of the loop of write(w, data): w.Write(data[index:]), then
\* return err unless err is a net.Error, else index += n and go round again.
\* Nothing in the codec keeps two goroutines from being in their calls at
\* once: their Write calls on the one bufio.Writer then race, and taking each
\* Write as a whole, in any order, is the mildest of the outcomes.
WriteStep(t) ==
    LET th == w_th[t]
        data == PhaseData(t, th.pc, th.body)
        r == BufWrite([buf |-> w_buf.buf, err |-> w_buf.err, wire |-> w_wire],
                      w_conn, Tag(t, Drop(data, th.index)))
        index == th.index + r.n
        next == AfterWrite(t, th.pc, th.body)
    IN  /\ th.pc \in {"size", "data", "body"}
        /\ w_buf' = [buf |-> r.w.buf, err |-> r.w.err]
        /\ w_wire' = r.w.wire
        /\ w_th' = [w_th EXCEPT ![t] =
              IF ~IsNetError(r.err)
              THEN IF r.err = Nil
                   THEN [@ EXCEPT !.pc = next, !.index = 0, !.iters = 0, !.last = Nil]
                   ELSE [@ EXCEPT !.pc = "done", !.index = 0, !.iters = 0,
                                  !.last = r.err, !.ret = r.err]
              ELSE IF index >= Len(data)
                   THEN [@ EXCEPT !.pc = next, !.index = 0, !.iters = 0, !.last = r.err]
                   ELSE [@ EXCEPT !.index = index, !.iters = 1 - @, !.last = r.err]]
        /\ UNCHANGED <<w_conn, w_order, w_overlap>>

\* Flush, whose error is dropped, and return nil
FlushStep(t) ==
    LET f == BufFlush([buf |-> w_buf.buf, err |-> w_buf.err, wire |-> w_wire], w_conn)
    IN  /\ w_th[t].pc = "flush"
        /\ w_buf' = [buf |-> f.w.buf, err |-> f.w.err]
        /\ w_wire' = f.w.wire
        /\ w_th' = [w_th EXCEPT ![t] = [@ EXCEPT !.pc = "done", !.ret = Nil]]
        /\ UNCHANGED <<w_conn, w_order, w_overlap>>

\* the connection fails for good: every conn.Write from now on returns err
ConnFail(err) ==
    /\ w_conn = Nil
    /\ w_conn' = err
    /\ UNCHANGED <<w_th, w_buf, w_wire, w_order, w_overlap>>

\* a step of the call on goroutine t
Step(t) == (WriteStep(t) \/ FlushStep(t)) /\ UNCHANGED reader_vars

\* no call was made on the writer yet, or none on the reader: the two share
\* no state, and each is followed on its own
WriterUntouched == w_order = <<>> /\ w_conn = Nil
ReaderUntouched == r_th.pc = "idle" /\ r_conn = Nil

\* the frames that arrive for the reader
FramesIn == {<<>>, <<7>>, <<7, 8, 9>>}

\* recvFrame begins, the frame of b on its way: binary.ReadUvarint reads the
\* size byte by byte and returns any error it meets; then comes read(r, data)
\* for a size that is not 0
RecvStart(b) ==
    /\ WriterUntouched
    /\ r_th.pc = "idle" /\ r_conn = Nil
    /\ LET u == ReadUvarint(SendFrameBytes(b)) IN
         /\ r_in' = u.rest
         /\ r_th' = IF u.x # 0
                    THEN [r_th EXCEPT !.pc = "data", !.want = u.x]
                    ELSE [r_th EXCEPT !.pc = "done", !.ret = Nil]
    /\ UNCHANGED r_conn

\* the connection fails for good while the data is awaited: the bytes from
\* number keep + 1 on never arrive, and Read returns err once the others are
\* read
ReaderFail(err, keep) ==
    /\ r_th.pc = "data" /\ r_conn = Nil
    /\ keep < Len(r_in)
    /\ r_in' = SubSeq(r_in, 1, keep)
    /\ r_conn' = err
    /\ UNCHANGED r_th

\* one iteration of the loop of read(r, data): r.Read(data[index:]) returns
\* n bytes that have arrived, or the connection's error; the loop returns an
\* error that is no net.Error, else index += n and goes round again
ReadStep(n) ==
    LET err == IF n = 0 THEN r_conn ELSE Nil
        index == r_th.index + n
    IN  /\ r_th.pc = "data"
        /\ n <= Len(r_in) /\ n <= r_th.want - r_th.index
        /\ n = 0 <=> (r_in = <<>> /\ r_conn # Nil)
        /\ r_in' = Drop(r_in, n)
        /\ r_th' = IF err # Nil /\ ~IsNetError(err)
                   THEN [r_th EXCEPT !.pc = "done", !.last = err, !.ret = err]
                   ELSE IF index >= r_th.want
                   THEN [r_th EXCEPT !.pc = "done", !.index = index, !.last = err,
                                     !.ret = Nil]
                   ELSE [r_th EXCEPT !.index = index, !.iters = 1 - @, !.last = err]
        /\ UNCHANGED r_conn

\* a step of the recvFrame call
RStep == (\E n \in 0..3 : ReadStep(n)) /\ UNCHANGED writer_vars

InitIO ==
    /\ InitCodecs
    /\ InitFrames
    /\ InitWriter
    /\ InitReader
    /\ peer = "none"
    /\ c_compressor = Raw

NextIO ==
    /\ \/ /\ \/ \E t \in Threads, body \in Bodies : ReaderUntouched /\ Start(t, body)
             \/ \E t \in Threads : WriteStep(t)
             \/ \E t \in Threads : FlushStep(t)
             \/ \E err \in {ErrReset, ErrClosedPipe} : ReaderUntouched /\ ConnFail(err)
          /\ UNCHANGED reader_vars
       \/ /\ \/ \E b \in FramesIn : RecvStart(b)
             \/ \E err \in {ErrReset, ErrEOF}, keep \in 0..2 : ReaderFail(err, keep)
             \/ \E n \in 0..3 : ReadStep(n)
          /\ UNCHANGED writer_vars
    /\ UNCHANGED <<vars, frame_vars>>

\* a goroutine that is inside a call goes on running
SpecIO ==
    /\ InitIO
    /\ [][NextIO]_<<vars, aux_vars>>
    /\ \A t \in Threads : WF_<<vars, aux_vars>>(Step(t) /\ UNCHANGED <<vars, frame_vars>>)
    /\ WF_<<vars, aux_vars>>(RStep /\ UNCHANGED <<vars, frame_vars>>)

(***************************************************************************)
(* Properties.                                                             *)
(***************************************************************************)
\* the seqs of all WriteRequest calls made so far
Written == {c_log[i].seq : i \in DOMAIN c_log}

\* the seqs ReadRequestHeader has assigned so far
Assigned == {s_log[i].seq : i \in DOMAIN s_log}

\* the last call was one of the two body reads, and it got its bytes
BodyRead == ret.op \in {"ReadRequestBody", "ReadResponseBody"} /\ ret.err # TransportError

\* the header the last body read worked on
BodyHeader == IF ret.op = "ReadRequestBody" THEN s_request ELSE c_response

\* the body the last body read received does not have the header's checksum,
\* and the header asks for verification
ChecksumMismatch ==
    /\ BodyHeader.Checksum # Zero32
    /\ ChecksumIEEE(ret.body) # BodyHeader.Checksum

\* C1: every response header WriteResponse writes for seq L carries the id and
\* the compress type of the request header that ReadRequestHeader assigned L
\* to, however many headers were read before and in whatever order the
\* responses are written; a WriteResponse that returns nil has written one.
C1_ResponseEchoesRequest ==
    ret.op = "WriteResponse" =>
      /\ (ret.err = Nil /\ ret.w = "ok") => ret.wrote # <<>>
      /\ ret.wrote # <<>> =>
           /\ ret.wrote[1].k = "frame"
           /\ \E i \in DOMAIN s_log :
                LET h == UnmarshalResponseHeader(ret.wrote[1].data).h IN
                /\ s_log[i].seq = ret.seq
                /\ h.ID = s_log[i].id
                /\ h.CompressType = s_log[i].ct

\* C1 witness: two request headers were read before any response, and the
\* second one is answered first
C1_Witness ==
    /\ ret.op = "WriteResponse" /\ ret.err = Nil /\ ret.seq = 2
    /\ Len(s_log) >= 2 /\ s_log[1].nresp = 0 /\ 1 \in DOMAIN s_pending

\* C2: the method ReadResponseHeader reports is the one WriteRequest recorded
\* for the response's seq
C2_MethodPreserved ==
    (ret.op = "ReadResponseHeader" /\ ret.err = Nil) =>
      \E i \in DOMAIN c_log : c_log[i].seq = ret.seq /\ c_log[i].method = ret.method

\* C2 witness: two requests in flight, the response to the later one arrives first
C2_Witness ==
    /\ ret.op = "ReadResponseHeader" /\ ret.err = Nil /\ ret.seq = 1
    /\ 0 \in DOMAIN c_pending /\ ret.method = MethodOf(1)

\* C3: an exchange leaves in the pending maps exactly what the other calls in
\* flight put there: the client's map holds the seqs written and not yet
\* answered, the server's map holds no seq it has answered, and both maps are
\* empty once every request written has had its response read.
C3_PendingIntegrity ==
    /\ DOMAIN c_pending = Written \ c_delivered
    /\ DOMAIN s_pending \subseteq Assigned
    /\ \A i \in DOMAIN s_log : s_log[i].nresp > 0 => s_log[i].seq \notin DOMAIN s_pending
    /\ Written \subseteq c_delivered => c_pending = EmptyMap /\ s_pending = EmptyMap

\* C3 witness: two exchanges have completed normally and both maps are empty
C3_Witness ==
    /\ Len(c_log) = 2 /\ c_delivered = {0, 1}
    /\ ret.op = "ReadResponseBody" /\ ret.err = Nil /\ ret.param # NoParam
    /\ c_pending = EmptyMap /\ s_pending = EmptyMap

\* C4: the seqs ReadRequestHeader assigns are 1, then strictly increasing
C4_SeqStrictlyIncreasing ==
    /\ s_log # <<>> => s_log[1].seq = 1
    /\ \A i, j \in DOMAIN s_log : i < j => s_log[i].seq < s_log[j].seq
    /\ (ret.op = "ReadRequestHeader" /\ ret.err = Nil) => ret.seq = s_log[Len(s_log)].seq

\* C4 witness: a seq is assigned after the entry of an earlier one was removed
C4_Witness ==
    /\ ret.op = "ReadRequestHeader" /\ ret.err = Nil
    /\ Len(s_log) >= 2 /\ s_log[1].seq \notin DOMAIN s_pending

\* C5: WriteResponse with a seq that is no key of the pending map returns
\* InvalidSequence, writes nothing and changes neither the map nor the seq
\* counter; no request header read is ever answered twice
C5_UnknownSeqRejected ==
    /\ [][\A seq \in ResponseSeqs, reply \in Replies, w \in WriterOutcomes :
            (seq \notin DOMAIN s_pending /\ WriteResponse(seq, reply[1], reply[2], w)) =>
              /\ ret'.err = InvalidSequenceError
              /\ ret'.wrote = <<>>
              /\ UNCHANGED <<s_pending, s_seq, s2c>>]_vars
    /\ [](\A i \in DOMAIN s_log : s_log[i].nresp <= 1)

\* C5 witness: a second WriteResponse for a seq that was answered already,
\* while another entry is pending
C5_Witness ==
    /\ ret.op = "WriteResponse" /\ ret.err = InvalidSequenceError
    /\ \E i \in DOMAIN s_log : s_log[i].seq = ret.seq /\ s_log[i].nresp = 1
    /\ s_pending # EmptyMap

\* C6, as claimed: ReadResponseHeader reports an error for a response whose id
\* is no key of the pending map
C6_UnknownSeqIsError ==
    (ret.op = "ReadResponseHeader" /\ ret.err = Nil) => ret.known

\* C7: a client configured with a compress type that is not registered never
\* puts a byte on the stream, and each of its WriteRequest calls returns
\* NotFoundCompressor
C7_UnknownCompressorWritesNothing ==
    c_compressor \notin Compressors =>
      /\ c2s = <<>>
      /\ ret.op = "WriteRequest" => ret.err = NotFoundCompressorError /\ ret.wrote = <<>>

\* C7 witness: the second WriteRequest of such a client has returned
C7_Witness ==
    c_compressor \notin Compressors /\ ret.op = "WriteRequest" /\ Len(c_log) = 2

\* C8, as claimed: a body read that receives a body whose CRC-32 differs from
\* the header's nonzero checksum returns UnexpectedChecksum
C8_ChecksumEnforced ==
    (BodyRead /\ ChecksumMismatch) =>
      ret.err = UnexpectedChecksumError /\ ~ret.unzipped /\ ret.target = NoParam

\* C8, amended: ... when it is called with a target
C8_ChecksumEnforcedWithTarget ==
    (BodyRead /\ ret.param # NoParam /\ ChecksumMismatch) =>
      ret.err = UnexpectedChecksumError /\ ~ret.unzipped /\ ret.target = NoParam

\* C8 witness: the server reads, into a target, a request body that was sent
\* with its right checksum and corrupted in transit
C8_Witness ==
    /\ ret.op = "ReadRequestBody" /\ ret.err = UnexpectedChecksumError
    /\ s_request.Checksum = ChecksumIEEE(<<8, 1>>) /\ ret.body = <<9, 1>>
    /\ n_corrupt = 1 /\ ret.param # NoParam

\* C9: a body read that returns anything but a transport error has consumed
\* exactly the RequestLen / ResponseLen bytes of the header decoded last, and
\* leaves the stream at the next header frame
C9_NoDesync ==
    /\ (ret.op = "ReadRequestBody" /\ ret.err # TransportError) =>
         /\ ret.consumed = s_request.RequestLen
         /\ c2s = <<>> \/ Head(c2s).k = "frame"
    /\ (ret.op = "ReadResponseBody" /\ ret.err # TransportError) =>
         /\ ret.consumed = c_response.ResponseLen
         /\ s2c = <<>> \/ Head(s2c).k = "frame"

\* C9 witness: the client returns CompressorTypeMismatch with the two bytes of
\* the body consumed, and reads a header next
C9_Witness ==
    /\ ret.op = "ReadResponseBody" /\ ret.err = CompressorTypeMismatchError
    /\ ret.consumed = 2 /\ c_response.ResponseLen = 2 /\ c_rd = "header"

\* C10, as claimed: after a request header with an unregistered compress type,
\* ReadRequestBody returns NotFoundCompressor
C10_UnknownCompressorRejected ==
    (ret.op = "ReadRequestBody" /\ s_request.CompressType \notin Compressors) =>
      ret.err = NotFoundCompressorError

\* C10, amended: ... when it is called with a target, reads the body without a
\* transport error and the body passes the checksum check; with no target it
\* returns nil, and a checksum mismatch is reported first
C10_UnknownCompressorRejectedAfterChecksum ==
    (ret.op = "ReadRequestBody" /\ s_request.CompressType \notin Compressors
       /\ ret.err # TransportError) =>
      ret.err = IF ret.param = NoParam THEN Nil
                ELSE IF ChecksumMismatch THEN UnexpectedChecksumError
                ELSE NotFoundCompressorError

\* C10 witness: NotFoundCompressor for a request of compress type 999
C10_Witness ==
    /\ ret.op = "ReadRequestBody" /\ ret.err = NotFoundCompressorError
    /\ s_request.CompressType = 999 /\ ret.consumed = 2

\* C11: the length field of a header (32 bits wide) is the number of bytes of
\* the compressed body written after the header frame, whatever that number.
C11_LenFieldIsBodyLength == f_msg.field = f_msg.len

\* C15: every recvFrame so far returned, without error, the buffer the
\* sendFrame of the same rank was called with, the empty one included, and
\* what is left on the stream is exactly the frames not yet received.
C15_FrameRoundTrip ==
    /\ Len(f_got) <= Len(f_sent)
    /\ \A i \in DOMAIN f_got : f_got[i] = [err |-> Nil, data |-> f_sent[i]]
    /\ f_stream = FramesBytes(SubSeq(f_sent, Len(f_got) + 1, Len(f_sent)))

\* three frames, an empty one and a long one among them, were sent back to
\* back and then received
C15_Witness ==
    /\ Len(f_got) = 3
    /\ f_stream = <<>>
    /\ \E i, j \in DOMAIN f_got :
         /\ i < j
         /\ f_got[i].data = <<>>
         /\ f_got[j].data = LongBuffer
         /\ Len(f_sent) = 3

\* the bytes of caller t's message, in the order the call writes them
MessageBytes(t) ==
    Tag(t, SendFrameBytes(HeaderBytes(t)) \o w_th[t].body)

\* how many of them the call's write loops have got the writer to take
Taken(t) ==
    LET th == w_th[t] IN
    IF th.pc = "idle" THEN 0
    ELSE IF th.pc = "size" THEN th.index
    ELSE IF th.pc = "data" THEN Len(PutUvarint(Len(HeaderBytes(t)))) + th.index
    ELSE IF th.pc = "body" THEN Len(SendFrameBytes(HeaderBytes(t))) + th.index
    ELSE Len(MessageBytes(t))

\* the bytes written so far, those still in the writer's buffer included
Out == w_wire \o w_buf.buf

\* no byte of another call lies between two bytes of one call
Contiguous(s) ==
    \A i, j, k \in DOMAIN s : (i < j /\ j < k /\ s[i].call = s[k].call) => s[j].call = s[i].call

RECURSIVE InOrder(_)
InOrder(order) ==
    IF order = <<>> THEN <<>>
    ELSE SubSeq(MessageBytes(Head(order)), 1, Taken(Head(order))) \o InOrder(Tail(order))

\* C12 (as claimed): the header frame and the body of a call are contiguous
\* on the wire, also when two calls run on the same codec at the same time.
C12_ContiguousWhenConcurrent == Contiguous(Out)

\* C12 (amended): when the caller lets one call on a codec return before it
\* begins the next, as net/rpc does, the bytes written are the messages one
\* after the other in the order of the calls, each the header frame followed
\* at once by its body.
C12_ContiguousWhenSerialized ==
    (~w_overlap /\ w_conn = Nil) => (Contiguous(Out) /\ Out = InOrder(w_order))

\* two calls, one after the other, have put two whole messages with bodies
\* on the wire
C12_Witness ==
    /\ ~w_overlap
    /\ w_conn = Nil
    /\ \A t \in Threads : w_th[t].pc = "done" /\ w_th[t].body # <<>>
    /\ w_buf.buf = <<>>
    /\ Len(w_wire) > 2 * Len(SendFrameBytes(HeaderBytes(1)))

\* the header frames on a stream, in stream order
RECURSIVE Frames(_)
Frames(stream) ==
    IF stream = <<>> THEN <<>>
    ELSE IF Head(stream).k = "frame" THEN <<Head(stream).data>> \o Frames(Tail(stream))
    ELSE Frames(Tail(stream))

\* the ids of the requests in the order they went over the wire: those the
\* server has read, then those still on the stream
RequestsOnWire ==
    [i \in DOMAIN s_log |-> s_log[i].id]
    \o [i \in DOMAIN Frames(c2s) |-> UnmarshalRequestHeader(Frames(c2s)[i]).h.ID]

\* the rank of the WriteRequest call that was made with seq
CallRank(seq) == CHOOSE i \in DOMAIN c_log : c_log[i].seq = seq

\* the rank, among the responses written, of the response that carries id
ResponseRank(id) ==
    LET i == CHOOSE j \in DOMAIN s_log : s_log[j].id = id /\ s_log[j].nresp > 0
    IN  s_log[i].ord

\* C13: the requests go over the wire in the order of the WriteRequest calls,
\* and ReadResponseHeader delivers the responses in the order WriteResponse
\* wrote them: the k-th response delivered is the k-th written, and those
\* still on the stream follow in the order they were written.
C13_OrderPreserved ==
    /\ \A i, j \in DOMAIN RequestsOnWire :
         i < j => CallRank(RequestsOnWire[i]) < CallRank(RequestsOnWire[j])
    /\ (ret.op = "ReadResponseHeader" /\ ret.err = Nil) =>
         ResponseRank(ret.seq) = Cardinality(c_delivered)
    /\ \A i \in DOMAIN Frames(s2c) :
         ResponseRank(UnmarshalResponseHeader(Frames(s2c)[i]).h.ID)
           = Cardinality(c_delivered) + i

\* two requests were written and read in the order of their calls; the second
\* was answered first, and the two responses were delivered in that order
C13_Witness ==
    /\ Len(s_log) = 2
    /\ s_log[1].id = 0 /\ s_log[1].ord = 2
    /\ s_log[2].id = 1 /\ s_log[2].ord = 1
    /\ c_delivered = {0, 1}
    /\ ret.op = "ReadResponseHeader" /\ ret.err = Nil /\ ret.seq = 0

\* the bytes of call t among those of s
OfCall(s, t) == SelectSeq(s, LAMBDA e : e.call = t)

\* the write loops of call t have all returned nil
LoopsDone(t) == w_th[t].pc = "flush" \/ (w_th[t].pc = "done" /\ w_th[t].ret = Nil)

\* C14: the loop of write goes on until the writer has taken the whole
\* buffer, its loops return nil only when every byte was taken, and an error
\* of Write that is not transient is returned at once: the call that met it
\* has returned it.  (Calls made one after the other.)
C14_WriteTakesAllOrReturnsError ==
    ~w_overlap =>
      \A t \in Threads :
        /\ LoopsDone(t) => OfCall(Out, t) = MessageBytes(t)
        /\ w_th[t].last \in {ErrReset, ErrClosedPipe} =>
             (w_th[t].pc = "done" /\ w_th[t].ret = w_th[t].last)

\* C16: a call returns nil only if its header frame and its whole body were
\* handed to the stream; if conn failed under it, it returns an error.
\* (Calls made one after the other.)
C16_NilOnlyIfHandedToStream ==
    ~w_overlap =>
      \A t \in Threads :
        (w_th[t].pc = "done" /\ w_th[t].ret = Nil) => OfCall(w_wire, t) = MessageBytes(t)

\* C17 (the write loop): once every Write on the codec's writer returns the
\* same error and takes no byte, a call that is inside a write loop gets out
\* of it (unless another call joins it on the writer).
C17_WriteLoopsTerminate ==
    \A t \in Threads :
      (~w_overlap /\ w_buf.err # Nil /\ w_th[t].pc \in {"size", "data", "body"})
        ~> (w_overlap \/ w_th[t].pc \in {"flush", "done"})

\* ... and once every Read returns the same error and no byte, the recvFrame
\* call that is inside the loop of read returns.
C17_ReadLoopTerminates ==
    (r_conn # Nil /\ r_in = <<>> /\ r_th.pc = "data") ~> (r_th.pc = "done")

\* C17, both loops
C17_LoopsTerminate == C17_WriteLoopsTerminate /\ C17_ReadLoopTerminates

\* C18: WriteRequest records seq -> method before anything else, so the entry
\* is in the pending map when the call has failed at a later step: the
\* compressor check, Marshal, or the write of the header frame or the body.
C18_PendingKeptOnFailure ==
    (ret.op = "WriteRequest" /\ ret.err # Nil) =>
      (ret.seq \in DOMAIN c_pending /\ c_pending[ret.seq] = ret.method)

\* the second of two calls failed in its write, the first at Marshal, and
\* both their entries are in the map
C18_Witness ==
    /\ ret.op = "WriteRequest" /\ ret.err = TransportError /\ ret.seq = 1
    /\ DOMAIN c_pending = {0, 1}
    /\ c2s = <<>> /\ s_log = <<>>

\* a WriteResponse for seq took the entry out and wrote no response
TakenUnanswered(seq) ==
    /\ seq \notin DOMAIN s_pending
    /\ \E i \in DOMAIN s_log : s_log[i].seq = seq /\ s_log[i].nresp = 0

\* C20: WriteResponse takes the entry of seq out of the pending map before
\* the compressor check, Marshal, Zip and the writes, so the entry is gone
\* when the call has failed at one of them, and a WriteResponse for the same
\* seq after that returns InvalidSequence.
C20_EntryGoneAfterFailure ==
    /\ [](((ret.op = "WriteResponse" /\ ret.err \notin {Nil, InvalidSequenceError})
            => TakenUnanswered(ret.seq)))
    /\ [][\A seq \in ResponseSeqs, reply \in FailReplies, w \in WriterOutcomes :
            (TakenUnanswered(seq) /\ WriteResponse(seq, reply[1], reply[2], w)) =>
              /\ ret'.err = InvalidSequenceError
              /\ ret'.wrote = <<>>]_vars

\* a WriteResponse failed at Marshal, and the next one for the same seq was
\* turned down
C20_Witness ==
    /\ ret.op = "WriteResponse" /\ ret.err = InvalidSequenceError
    /\ TakenUnanswered(ret.seq)
    /\ s2c = <<>>
    /\ s_pending # EmptyMap

\* C19: a body read under a header whose checksum is 0 never returns
\* UnexpectedChecksum, whatever the body; and an empty body sent with length
\* 0, checksum 0 and the identity compressor is accepted by a read with a
\* target, which unmarshals the empty input.
C19_ZeroChecksumNotVerified ==
    (BodyRead /\ BodyHeader.Checksum = Zero32) =>
      /\ ret.err # UnexpectedChecksumError
      /\ (/\ ret.param # NoParam
          /\ ret.consumed = 0
          /\ BodyHeader.CompressType = Raw
          /\ (ret.op = "ReadResponseBody" => c_compressor = Raw))
         => (/\ ret.err = Nil
             /\ ret.body = <<>>
             /\ ret.unzipped
             /\ ret.target = Unmarshal(<<>>).out)

\* a body sent with checksum 0 was corrupted in transit and went unverified
\* through the checksum step, on to Unzip
C19_Witness ==
    /\ BodyRead /\ BodyHeader.Checksum = Zero32
    /\ ret.param # NoParam
    /\ ret.body = <<9, 1>> /\ n_corrupt = 1
    /\ ret.unzipped

====
